---- MODULE Spec2Model ----
(***************************************************************************)
(* smfc (Breit/smfc_h11): IPMI fan-control daemon, src/src/smfc.py.        *)
(*                                                                         *)
(* The daemon (main) builds one Ipmi object and up to two FanController    *)
(* zones (CpuZone, HdZone) and ticks them from one loop.  A float is       *)
(* modelled as a record [nan, n, d]: either NaN or the rational n/d        *)
(* (binary rounding error of IEEE doubles is not modelled).  An operation  *)
(* that may raise returns a record with the field exc ("none" when it      *)
(* returns normally).                                                      *)
(***************************************************************************)
EXTENDS Integers, Sequences, FiniteSets, TLC

(***************************************************************************)
(* Bounds of the model.                                                    *)
(***************************************************************************)
MaxSensors == 2
MaxDisks == 1
MaxCmds == 2
MaxTime == 4
MaxLines == 3

(***************************************************************************)
(* Floats.                                                                 *)
(***************************************************************************)
RECURSIVE GCD(_, _)
GCD(a, b) == IF b = 0 THEN a ELSE GCD(b, a % b)

Abs(i) == IF i < 0 THEN -i ELSE i

NaN == [nan |-> TRUE, n |-> 0, d |-> 1]

\* The rational n/d (d # 0) in lowest terms with a positive denominator.
Rat(n, d) ==
    LET g == GCD(Abs(n), Abs(d))
        s == IF d < 0 THEN -1 ELSE 1
    IN  [nan |-> FALSE, n |-> (s * n) \div g, d |-> (s * d) \div g]

Flt(i) == [nan |-> FALSE, n |-> i, d |-> 1]

isnan(x) == x.nan

FAdd(x, y) == IF x.nan \/ y.nan THEN NaN ELSE Rat(x.n * y.d + y.n * x.d, x.d * y.d)
FSub(x, y) == IF x.nan \/ y.nan THEN NaN ELSE Rat(x.n * y.d - y.n * x.d, x.d * y.d)
FMul(x, y) == IF x.nan \/ y.nan THEN NaN ELSE Rat(x.n * y.n, x.d * y.d)
\* x / y for y # 0 (Python raises ZeroDivisionError for y = 0: see the callers).
FDiv(x, y) == IF x.nan \/ y.nan THEN NaN ELSE Rat(x.n * y.d, x.d * y.n)
FAbs(x) == IF x.nan THEN NaN ELSE Rat(Abs(x.n), x.d)
\* Every comparison with NaN is False.
FLt(x, y) == ~x.nan /\ ~y.nan /\ x.n * y.d < y.n * x.d
FGt(x, y) == FLt(y, x)
FEq(x, y) == ~x.nan /\ ~y.nan /\ x.n * y.d = y.n * x.d
FIsZero(x) == ~x.nan /\ x.n = 0

\* Python's builtin max(a, b) / min(a, b): the first argument unless the
\* second compares greater / smaller (so a NaN first argument is kept).
PyMax(a, b) == IF FGt(b, a) THEN b ELSE a
PyMin(a, b) == IF FLt(b, a) THEN b ELSE a

\* Python's round(x) of a finite float to an integer: half to even.
PyRound(x) ==
    LET q == x.n \div x.d
        r == x.n % x.d
    IN  IF 2 * r < x.d THEN q
        ELSE IF 2 * r > x.d THEN q + 1
        ELSE IF q % 2 = 0 THEN q ELSE q + 1

(***************************************************************************)
(* Results of operations that may raise.                                   *)
(***************************************************************************)
Ok(v) == [exc |-> "none", val |-> v]
Raise(e) == [exc |-> e, val |-> NaN]

SeqsUpTo(S, k) == UNION {[1..m -> S] : m \in 0..k}

(***************************************************************************)
(* class Sensor                                                            *)
(***************************************************************************)
\* The attributes of the class object Sensor itself. The lines "name: str",
\* "temperature: float", ... of the class body are annotations without a
\* value and create no class attribute; the data lives on the instances.
SensorClassAttrs == {"__init__", "getRelTemp", "getIpmiTemps", "getDiskTemps"}

\* The attributes Sensor.__init__ sets on an instance.
SensorInstanceAttrs ==
    {"name", "temperature", "unit", "status", "lnr", "lcr", "lnc", "unc", "ucr", "unr", "type"}

\* The body of getRelTemp evaluated on the values t, lnc, unc.
RelTempBody(t, lnc, unc) ==
    LET l == FSub(PyMin(PyMax(t, unc), lnc), lnc)
        u == FSub(unc, lnc)
    IN  IF FIsZero(u) THEN Raise("ZeroDivisionError")
        ELSE LET r == FDiv(l, u)
             IN  IF FIsZero(r) THEN Ok(Flt(1))
                 ELSE Ok(PyMax(PyMin(r, Flt(1)), Flt(0)))

\* sensor.getRelTemp(). The method is declared @classmethod, so its first
\* parameter (named self) is bound to the class Sensor, not to the instance
\* the call is made on: self.temperature is looked up on the class.
getRelTemp(sensor) ==
    IF {"temperature", "unc", "lnc"} \subseteq SensorClassAttrs
    THEN RelTempBody(sensor.temperature, sensor.lnc, sensor.unc)
    ELSE Raise("AttributeError")

\* No override configured: config.getfloat(..., fallback=None) twice.
NoLimits == [has0 |-> FALSE, v0 |-> NaN, has1 |-> FALSE, v1 |-> NaN]
Limits(lo, hi) == [has0 |-> TRUE, v0 |-> Flt(lo), has1 |-> TRUE, v1 |-> Flt(hi)]

\* a if a < b else b
IfLess(a, b) == IF FLt(a, b) THEN a ELSE b

\* One parsed row of "ipmitool sensor" with sensor_limits applied; a limit
\* of 0.0 is false in "if sensor_limits[i]:".
IpmiRow(row, limits) ==
    IF ~limits.has0 \/ ~limits.has1
    THEN [exc |-> "TypeError", sensor |-> row]      \* None < ... is not supported
    ELSE IF FLt(limits.v0, limits.v1)
         THEN [exc |-> "none",
               sensor |-> [row EXCEPT
                   !.lnc = IF FIsZero(limits.v0) THEN @ ELSE limits.v0,
                   !.lcr = IF FIsZero(limits.v0) THEN @ ELSE IfLess(limits.v0, @),
                   !.lnr = IF FIsZero(limits.v0) THEN @ ELSE IfLess(limits.v0, @),
                   !.unc = IF FIsZero(limits.v1) THEN @ ELSE limits.v1,
                   !.ucr = IF FIsZero(limits.v1) THEN @ ELSE IfLess(limits.v1, @),
                   !.unr = IF FIsZero(limits.v1) THEN @ ELSE IfLess(limits.v1, @)]]
         ELSE [exc |-> "none", sensor |-> row]

\* Sensor.getIpmiTemps: rows are the lines of the IPMI sensor table that
\* passed the greps and the regular expression, their fields converted.
RECURSIVE getIpmiTemps(_, _)
getIpmiTemps(rows, limits) ==
    IF rows = <<>> THEN [exc |-> "none", list |-> <<>>]
    ELSE LET first == IpmiRow(Head(rows), limits)
             rest == getIpmiTemps(Tail(rows), limits)
         IN  IF first.exc # "none" THEN [exc |-> first.exc, list |-> <<>>]
             ELSE IF rest.exc # "none" THEN rest
             ELSE [exc |-> "none", list |-> <<first.sensor>> \o rest.list]

min_temp_hdd == 10
max_temp_hdd == 50
min_temp_ssd == 10
max_temp_ssd == 70

\* getDisks_Linux / getDisks_FreeBSD: the type of an enumerated disk. Under
\* FreeBSD the GEOM branch uses ET, which smfc.py never imports: the bare
\* except falls back to kern.disks, which reports every disk as 'Unknown'.
DiskType(os, rotational) ==
    IF os = "Linux" THEN (IF rotational THEN "HDD" ELSE "SSD") ELSE "Unknown"

\* A line of smartctl output is what the three temperature expressions make
\* of it: kind names the expression that matches it ("194", "190", "temp";
\* each is anchored at the start of the line, so at most one matches) or is
\* "other", and cap is the number its group(1) captured, -1 for the empty
\* string, which (\d*) accepts.
rx_temp == <<"194", "190", "temp">>

\* The inner loop of the temperature scan for one expression: the first
\* matching line is converted with float() and ends the loop.
RECURSIVE ScanLines(_, _)
ScanLines(lines, rxt) ==
    IF lines = <<>> THEN Ok(NaN)
    ELSE IF Head(lines).kind = rxt
         THEN (IF Head(lines).cap < 0 THEN Raise("ValueError") ELSE Ok(Flt(Head(lines).cap)))
         ELSE ScanLines(Tail(lines), rxt)

\* The outer loop: the expressions in order, until one gave a temperature.
RECURSIVE ScanRx(_, _)
ScanRx(lines, rxs) ==
    IF rxs = <<>> THEN Ok(NaN)
    ELSE LET r == ScanLines(lines, Head(rxs))
         IN  IF r.exc # "none" \/ ~isnan(r.val) THEN r ELSE ScanRx(lines, Tail(rxs))

\* The scan with its two loops exchanged: the first line that any of the
\* expressions matches gives the temperature.
SmartTemp_line_first(lines) ==
    IF \A i \in DOMAIN lines : lines[i].kind = "other" THEN Ok(NaN)
    ELSE LET i == CHOOSE k \in DOMAIN lines :
                      /\ lines[k].kind # "other"
                      /\ \A j \in 1..(k - 1) : lines[j].kind = "other"
         IN  IF lines[i].cap < 0 THEN Raise("ValueError") ELSE Ok(Flt(lines[i].cap))

\* The temperature of one disk from its smartctl output.
SmartTemp(lines) == ScanRx(lines, rx_temp)

\* The Sensor built for one disk (parse_limits off) from the temperature
\* the scan gave.
DiskSensor(os, disk) ==
    LET ty == DiskType(os, disk.rotational)
        lo == IF ty = "SSD" THEN min_temp_ssd ELSE min_temp_hdd
        hi == IF ty = "SSD" THEN max_temp_ssd ELSE max_temp_hdd
        temp == SmartTemp(disk.smart).val
    IN  [temperature |-> temp,
         status |-> IF isnan(temp) THEN "FAIL" ELSE "OK",
         lnr |-> Flt(lo), lcr |-> Flt(lo), lnc |-> Flt(lo),
         unc |-> Flt(hi), ucr |-> Flt(hi), unr |-> Flt(hi), type |-> ty]

\* Sensor.getDiskTemps: float() raising on an empty capture leaves the
\* function, which has no try around its loop.
getDiskTemps(os, disks) ==
    IF os \notin {"Linux", "FreeBSD"} THEN [exc |-> "Exception", list |-> <<>>]
    ELSE IF \E i \in DOMAIN disks : SmartTemp(disks[i].smart).exc # "none"
    THEN [exc |-> "ValueError", list |-> <<>>]
    ELSE [exc |-> "none", list |-> [i \in DOMAIN disks |-> DiskSensor(os, disks[i])]]

(***************************************************************************)
(* class Ipmi                                                              *)
(***************************************************************************)
STANDARD_MODE == 0
FULL_MODE == 1
OPTIMAL_MODE == 2
HEAVY_IO_MODE == 4
CPU_ZONE == 0
HD_ZONE == 1

\* A world w is the part of the state an operation reads and writes:
\*   now    the monotonic clock, in seconds
\*   wire   the ipmitool commands run so far, each with the time it was run
\*   level  the PWM level the BMC holds for each of its zones
\*   mode   the fan mode the BMC holds
\*   zone   the two FanController objects
\*   exc    the exception propagating out of the operation, or "none"
\* proc is what running ipmitool does: "notfound" (the binary cannot be
\* spawned), "ok" (exit status 0, the BMC applies the command) or "fail"
\* (non-zero exit status, the BMC applies nothing).

\* Ipmi.set_fan_mode with the settle sleep taken only after a command that
\* ended with exit status 0.
Ipmi_set_fan_mode_sleep_on_success(w, ipmi, mode, proc) ==
    IF mode \notin {STANDARD_MODE, FULL_MODE, OPTIMAL_MODE, HEAVY_IO_MODE}
    THEN [w EXCEPT !.exc = "ValueError"]
    ELSE IF proc = "notfound" THEN [w EXCEPT !.exc = "FileNotFoundError"]
    ELSE [w EXCEPT
            !.wire = Append(@, [op |-> "set_mode", zone |-> 0, value |-> mode, time |-> w.now]),
            !.mode = IF proc = "ok" THEN mode ELSE @,
            !.now = IF proc = "ok" THEN @ + ipmi.fan_mode_delay ELSE @]

\* Ipmi.set_fan_mode
Ipmi_set_fan_mode(w, ipmi, mode, proc) ==
    IF mode \notin {STANDARD_MODE, FULL_MODE, OPTIMAL_MODE, HEAVY_IO_MODE}
    THEN [w EXCEPT !.exc = "ValueError"]
    ELSE IF proc = "notfound" THEN [w EXCEPT !.exc = "FileNotFoundError"]
    ELSE [w EXCEPT
            !.wire = Append(@, [op |-> "set_mode", zone |-> 0, value |-> mode, time |-> w.now]),
            !.mode = IF proc = "ok" THEN mode ELSE @,
            !.now = @ + ipmi.fan_mode_delay]

\* Ipmi.set_fan_level without the handling of swapped zones.
Ipmi_set_fan_level_no_swap(w, ipmi, zone, level, proc) ==
    IF zone \notin {CPU_ZONE, HD_ZONE} THEN [w EXCEPT !.exc = "ValueError"]
    ELSE IF level \notin 0..100 THEN [w EXCEPT !.exc = "ValueError"]
    ELSE IF ipmi.impi_alternate_mode THEN [w EXCEPT !.exc = "TypeError"]
    ELSE IF proc = "notfound" THEN [w EXCEPT !.exc = "FileNotFoundError"]
    ELSE [w EXCEPT
            !.wire = Append(@, [op |-> "set_level", zone |-> zone, value |-> level,
                                time |-> w.now]),
            !.level[zone] = IF proc = "ok" THEN level ELSE @,
            !.now = @ + ipmi.fan_level_delay]

\* Ipmi.set_fan_level with the settle sleep taken only after a command
\* that ended with exit status 0.
Ipmi_set_fan_level_sleep_on_success(w, ipmi, zone, level, proc) ==
    IF zone \notin {CPU_ZONE, HD_ZONE} THEN [w EXCEPT !.exc = "ValueError"]
    ELSE LET z == IF ipmi.swapped_zones THEN 1 - zone ELSE zone
         IN  IF level \notin 0..100 THEN [w EXCEPT !.exc = "ValueError"]
             ELSE IF ipmi.impi_alternate_mode THEN [w EXCEPT !.exc = "TypeError"]
             ELSE IF proc = "notfound" THEN [w EXCEPT !.exc = "FileNotFoundError"]
             ELSE [w EXCEPT
                     !.wire = Append(@, [op |-> "set_level", zone |-> z, value |-> level,
                                         time |-> w.now]),
                     !.level[z] = IF proc = "ok" THEN level ELSE @,
                     !.now = IF proc = "ok" THEN @ + ipmi.fan_level_delay ELSE @]

\* Ipmi.set_fan_level without the validation of its two parameters.
Ipmi_set_fan_level_unchecked(w, ipmi, zone, level, proc) ==
    LET z == IF ipmi.swapped_zones THEN 1 - zone ELSE zone
    IN  IF ipmi.impi_alternate_mode THEN [w EXCEPT !.exc = "TypeError"]
        ELSE IF proc = "notfound" THEN [w EXCEPT !.exc = "FileNotFoundError"]
        ELSE [w EXCEPT
                !.wire = Append(@, [op |-> "set_level", zone |-> z, value |-> level,
                                    time |-> w.now]),
                !.level = [y \in {CPU_ZONE, HD_ZONE} |->
                             IF y = z /\ proc = "ok" THEN level ELSE w.level[y]],
                !.now = @ + ipmi.fan_level_delay]

\* Ipmi.set_fan_level
Ipmi_set_fan_level(w, ipmi, zone, level, proc) ==
    IF zone \notin {CPU_ZONE, HD_ZONE} THEN [w EXCEPT !.exc = "ValueError"]
    ELSE LET z == IF ipmi.swapped_zones THEN 1 - zone ELSE zone
         IN  IF level \notin 0..100 THEN [w EXCEPT !.exc = "ValueError"]
             \* hex() of the float (255 * level) / 100.0, evaluated while the
             \* argument list is built, before ipmitool is run
             ELSE IF ipmi.impi_alternate_mode THEN [w EXCEPT !.exc = "TypeError"]
             ELSE IF proc = "notfound" THEN [w EXCEPT !.exc = "FileNotFoundError"]
             ELSE [w EXCEPT
                     !.wire = Append(@, [op |-> "set_level", zone |-> z, value |-> level,
                                         time |-> w.now]),
                     !.level[z] = IF proc = "ok" THEN level ELSE @,
                     !.now = @ + ipmi.fan_level_delay]

(***************************************************************************)
(* class FanController, CpuZone, HdZone                                    *)
(***************************************************************************)
CALC_MIN == 0
CALC_AVG == 1
CALC_MAX == 2
CALC_ONE == 3

\* The checks of FanController.__init__ on its parameters.
FanController_init_exc(cfg) ==
    IF cfg.temp_calc \notin {CALC_MIN, CALC_AVG, CALC_MAX} THEN "ValueError"
    ELSE IF cfg.steps <= 0 THEN "ValueError"
    ELSE IF ~FGt(cfg.sensitivity, Flt(0)) \/ FGt(cfg.sensitivity, Flt(1)) THEN "ValueError"
    ELSE IF cfg.polling < 0 THEN "ValueError"
    ELSE IF cfg.max_level < cfg.min_level THEN "ValueError"
    ELSE "none"

\* The measured attributes FanController.__init__ sets. self.sensors is not
\* assigned by any constructor; <<>> stands for the missing attribute too.
FanController_init(cfg, now) ==
    [last_time |-> now - (cfg.polling + 1), last_temp |-> Flt(0), last_level |-> 0,
     sensors |-> <<>>]

\* CpuZone.update_sensors / HdZone.update_sensors: the exception raised, if
\* any, and self.sensors afterwards. HdZone assigns self.sensors and then
\* calls the list's count() without an argument.
update_sensors(z, cfg, self, in) ==
    LET ipmi == getIpmiTemps(in.rows, cfg.limits)
        disk == getDiskTemps(in.os, in.disks)
    IN  IF z = CPU_ZONE
        THEN IF ipmi.exc # "none" THEN [exc |-> ipmi.exc, sensors |-> self.sensors]
             ELSE [exc |-> "none", sensors |-> ipmi.list]
        ELSE IF ipmi.exc # "none" THEN [exc |-> ipmi.exc, sensors |-> self.sensors]
             ELSE IF disk.exc # "none" THEN [exc |-> disk.exc, sensors |-> self.sensors]
             ELSE [exc |-> "TypeError", sensors |-> ipmi.list \o disk.list]

\* The loop of get_min_temp and of get_max_temp: both branches of the loop
\* body end with value holding the relative temperature of the sensor just
\* read. An exception leaves the loop with the value reached so far.
RECURSIVE LastLoop(_, _)
LastLoop(ss, value) ==
    IF ss = <<>> THEN value
    ELSE LET r == getRelTemp(Head(ss))
         IN  IF r.exc # "none" THEN value ELSE LastLoop(Tail(ss), r.val)

\* FanController.get_1_temp
get_1_temp(upd) ==
    IF upd.exc # "none" \/ Len(upd.sensors) = 0 THEN NaN
    ELSE LET r == getRelTemp(upd.sensors[1])
         IN  IF r.exc # "none" THEN NaN ELSE r.val

\* FanController.get_min_temp
get_min_temp(upd) ==
    IF upd.exc # "none" \/ Len(upd.sensors) = 0 THEN NaN
    ELSE LastLoop(upd.sensors, NaN)

\* The loop of get_avg_temp, then the division by cnt (skipped when a
\* getRelTemp raised).
RECURSIVE AvgLoop(_, _, _)
AvgLoop(ss, value, cnt) ==
    IF ss = <<>> THEN (IF cnt > 0 THEN FDiv(value, Flt(cnt)) ELSE value)
    ELSE LET r == getRelTemp(Head(ss))
         IN  IF r.exc # "none" THEN value
             ELSE IF isnan(value) THEN AvgLoop(Tail(ss), r.val, cnt)
             ELSE IF ~isnan(r.val) THEN AvgLoop(Tail(ss), FAdd(value, r.val), cnt + 1)
             ELSE AvgLoop(Tail(ss), value, cnt)

\* FanController.get_avg_temp
get_avg_temp(upd) ==
    IF upd.exc # "none" \/ Len(upd.sensors) = 0 THEN NaN
    ELSE AvgLoop(upd.sensors, NaN, 0)

\* FanController.get_max_temp: before its loop it prints sensor.value of
\* every sensor, an attribute no Sensor has.
get_max_temp(upd) ==
    IF upd.exc # "none" \/ Len(upd.sensors) = 0 THEN NaN
    ELSE IF "value" \notin SensorInstanceAttrs THEN NaN
    ELSE LastLoop(upd.sensors, NaN)

\* self.get_temp_func(), as selected by FanController.__init__
get_temp_func(cfg, upd) ==
    IF cfg.temp_calc = CALC_MIN THEN get_min_temp(upd)
    ELSE IF cfg.temp_calc = CALC_MAX THEN get_max_temp(upd)
    ELSE IF cfg.temp_calc = CALC_AVG THEN get_avg_temp(upd)
    ELSE IF cfg.temp_calc = CALC_ONE THEN get_1_temp(upd)
    ELSE get_avg_temp(upd)

\* Step 3 of run: current_gain and current_level for a finite
\* current_temp (temp_step = 1.0 / steps, level_step = (max - min) / steps).
current_gain(cfg, current_temp) == PyRound(FDiv(current_temp, Rat(1, cfg.steps)))

\* Step 3 of run with the level counted down from max_level.
current_level_from_max(cfg, current_temp) ==
    cfg.max_level - PyRound(FMul(Flt(current_gain(cfg, current_temp)),
                                 Rat(cfg.max_level - cfg.min_level, cfg.steps)))

current_level(cfg, current_temp) ==
    PyRound(FMul(Flt(current_gain(cfg, current_temp)),
                 Rat(cfg.max_level - cfg.min_level, cfg.steps))) + cfg.min_level

\* Steps 2 to 4 of run with last_temp stored at every poll, before the
\* sensitivity test.
run_steps_store_first(w, ipmi, z, cfg, proc, upd, current_temp) ==
    LET self == w.zone[z]
        polled == [w EXCEPT !.zone[z].last_time = w.now, !.zone[z].sensors = upd.sensors,
                            !.zone[z].last_temp = current_temp]
        level == current_level(cfg, current_temp)
    IN  IF FLt(FAbs(FSub(current_temp, self.last_temp)), cfg.sensitivity) THEN polled
        ELSE IF isnan(current_temp) THEN [polled EXCEPT !.exc = "ValueError"]
        ELSE IF level # self.last_level
             THEN Ipmi_set_fan_level([polled EXCEPT !.zone[z].last_level = level],
                                     ipmi, z, level, proc)
             ELSE polled

\* Steps 2 to 4 of run with step 4 setting the level without comparing it.
run_steps_always_set(w, ipmi, z, cfg, proc, upd, current_temp) ==
    LET self == w.zone[z]
        polled == [w EXCEPT !.zone[z].last_time = w.now, !.zone[z].sensors = upd.sensors]
        gated == [polled EXCEPT !.zone[z].last_temp = current_temp]
        level == current_level(cfg, current_temp)
    IN  IF FLt(FAbs(FSub(current_temp, self.last_temp)), cfg.sensitivity) THEN polled
        ELSE IF isnan(current_temp) THEN [gated EXCEPT !.exc = "ValueError"]
        ELSE Ipmi_set_fan_level([gated EXCEPT !.zone[z].last_level = level],
                                ipmi, z, level, proc)

\* run's steps without the sensitivity test of step 2.
run_steps_no_gate(w, ipmi, z, cfg, proc, upd, current_temp) ==
    LET self == w.zone[z]
        polled == [w EXCEPT !.zone[z].last_time = w.now, !.zone[z].sensors = upd.sensors]
        gated == [polled EXCEPT !.zone[z].last_temp = current_temp]
        level == current_level(cfg, current_temp)
    IN  IF isnan(current_temp) THEN [gated EXCEPT !.exc = "ValueError"]
        ELSE IF level # self.last_level
             THEN Ipmi_set_fan_level([gated EXCEPT !.zone[z].last_level = level],
                                     ipmi, z, level, proc)
             ELSE gated

\* Steps 2 to 4 of run, once update_sensors has answered upd and the
\* aggregation has returned current_temp.
run_steps(w, ipmi, z, cfg, proc, upd, current_temp) ==
    LET self == w.zone[z]
        polled == [w EXCEPT !.zone[z].last_time = w.now, !.zone[z].sensors = upd.sensors]
        gated == [polled EXCEPT !.zone[z].last_temp = current_temp]
        level == current_level(cfg, current_temp)
    IN  IF FLt(FAbs(FSub(current_temp, self.last_temp)), cfg.sensitivity) THEN polled
        ELSE IF isnan(current_temp) THEN [gated EXCEPT !.exc = "ValueError"]  \* round(nan)
        ELSE IF level # self.last_level
             THEN Ipmi_set_fan_level([gated EXCEPT !.zone[z].last_level = level],
                                     ipmi, z, level, proc)
             ELSE gated

\* FanController.run for zone z: in is what the sensor tools and ipmitool
\* do during this call.
run(w, ipmi, z, cfg, in) ==
    IF w.now - w.zone[z].last_time < cfg.polling THEN w
    ELSE CHOOSE r \in {run_steps(w, ipmi, z, cfg, in.proc, upd, t) :
                        <<upd, t>> \in {<<u, get_temp_func(cfg, u)>> :
                                          u \in {update_sensors(z, cfg, w.zone[z], in)}}} : TRUE

(***************************************************************************)
(* State.                                                                  *)
(***************************************************************************)
VARIABLES
    cfg,        \* the [CPU zone] and [HD zone] sections of the configuration
    ipmi,       \* the attributes of the Ipmi object (the [Ipmi] section)
    log_level,  \* the -l command line argument
    os,         \* platform.system()
    pc,         \* where main is: "main", "loop", "exit", "crashed"; "api" in SpecIpmi
    exit_code,  \* the exit status of the process once it has ended, else -1
    now,        \* time.monotonic(), in seconds
    wire,       \* the ipmitool set commands run so far
    level,      \* the PWM level the BMC holds per zone
    mode,       \* the fan mode the BMC holds
    zone,       \* the FanController objects
    exc,        \* the exception that ended the last operation, or "none"
    ticks,      \* per zone, what its run() of the latest loop iteration did
    call        \* the latest call a caller made on Ipmi or Sensor directly

vars == <<cfg, ipmi, log_level, os, pc, exit_code, now, wire, level, mode, zone, exc, ticks,
         call>>

Zones == {CPU_ZONE, HD_ZONE}

World == [now |-> now, wire |-> wire, level |-> level, mode |-> mode, zone |-> zone,
          exc |-> "none"]

NoTick == [ran |-> FALSE]

NoCall == [op |-> "none"]

\* What run() of zone z did: its inputs, the zone before, the aggregated
\* temperature it read and the world it left.
Tick(z, in, w0, w1) ==
    [ran |-> TRUE, in |-> in, pre |-> w0.zone[z], post |-> w1.zone[z],
     polled |-> ~(w0.now - w0.zone[z].last_time < cfg[z].polling),
     temp |-> get_temp_func(cfg[z], update_sensors(z, cfg[z], w0.zone[z], in)),
     writes |-> SubSeq(w1.wire, Len(w0.wire) + 1, Len(w1.wire)),
     exc |-> w1.exc]

(***************************************************************************)
(* The environment: what the external tools answer.                        *)
(***************************************************************************)
Temps == {NaN, Flt(30), Flt(50), Flt(70)}

\* (lnc, unc) as the BMC reports them
Thresholds == {<<Flt(30), Flt(70)>>}

IpmiRows ==
    {[temperature |-> t, status |-> IF isnan(t) THEN "na" ELSE "ok",
      lnr |-> th[1], lcr |-> th[1], lnc |-> th[1],
      unc |-> th[2], ucr |-> th[2], unr |-> th[2], type |-> "None"] :
        t \in Temps, th \in Thresholds}

\* smartctl output per disk: no temperature line, or attribute 194 at 40
Disks == [smart : {<<>>, <<[kind |-> "194", cap |-> 40]>>}, rotational : BOOLEAN]

Procs == {"ok", "fail"}

NoInput == [rows |-> <<>>, disks |-> <<>>, os |-> os, proc |-> "ok"]

\* What one run() of zone z may meet: MaxSensors bounds the sensors of a poll.
TickInputs(z) ==
    {in \in [rows : SeqsUpTo(IpmiRows, MaxSensors),
             disks : IF z = HD_ZONE THEN SeqsUpTo(Disks, MaxDisks) ELSE {<<>>},
             os : {os},
             proc : Procs] : Len(in.rows) + Len(in.disks) <= MaxSensors}

(***************************************************************************)
(* main                                                                    *)
(***************************************************************************)
CpuCfgs ==
    [enabled : BOOLEAN, temp_calc : {CALC_MIN, CALC_AVG, CALC_MAX, CALC_ONE}, steps : {4},
     sensitivity : {Rat(1, 10)}, polling : {2}, min_level : {20}, max_level : {100},
     limits : {NoLimits, Limits(30, 70)}]

HdCfgs ==
    [enabled : BOOLEAN, temp_calc : {CALC_AVG, CALC_MAX}, steps : {4},
     sensitivity : {Rat(1, 50)}, polling : {10}, min_level : {35}, max_level : {100},
     limits : {NoLimits, Limits(30, 70)}]

IpmiCfgs ==
    [fan_mode_delay : {1}, fan_level_delay : {0, 2}, swapped_zones : BOOLEAN,
     impi_alternate_mode : BOOLEAN]

Init ==
    /\ \E c \in CpuCfgs, h \in HdCfgs : cfg = [z \in Zones |-> IF z = CPU_ZONE THEN c ELSE h]
    /\ ipmi \in {c \in IpmiCfgs : c.fan_mode_delay = 1 /\ c.fan_level_delay = 2
                                  /\ ~c.impi_alternate_mode /\ ~c.swapped_zones}
    /\ log_level \in {1, 3}
    /\ os \in {"Linux", "FreeBSD", "Darwin"}
    /\ pc = "main"
    /\ exit_code = -1
    /\ now = 0
    /\ wire = <<>>
    /\ level = [z \in Zones |-> 0]
    /\ mode \in {STANDARD_MODE, FULL_MODE}
    /\ zone = [z \in Zones |-> [last_time |-> 0, last_temp |-> Flt(0), last_level |-> 0,
                                sensors |-> <<>>]]
    /\ exc = "none"
    /\ ticks = [z \in Zones |-> NoTick]
    /\ call = NoCall

\* The construction of one zone object in main: the exception it raises.
\* At DEBUG log level the constructor iterates over self.sensors, which no
\* constructor has assigned.
Zone_init_exc(c) ==
    IF FanController_init_exc(c) # "none" THEN FanController_init_exc(c)
    ELSE IF log_level >= 3 THEN "AttributeError"
    ELSE "none"

\* main leaving the fan mode as it found it.
main_keep_fan_mode(w, my_ipmi, set) == w

\* main taking the HD zone for disabled whenever the CPU zone is.
none_enabled_cpu_only(cpu_zone_enabled, hd_zone_enabled) == ~cpu_zone_enabled

\* main after it has read the old fan mode: FULL is set unless it is
\* the mode read.
main_set_fan_mode(w, my_ipmi, set) ==
    IF w.mode # FULL_MODE THEN Ipmi_set_fan_mode(w, my_ipmi, FULL_MODE, set) ELSE w

\* The last branch of the wait computation of main: no zone is enabled.
none_enabled(cpu_zone_enabled, hd_zone_enabled) == ~cpu_zone_enabled /\ ~hd_zone_enabled

\* main up to its loop: the Ipmi object, the fan mode, the zones, the wait.
\*   tool   whether ipmitool can be spawned
\*   get    what "raw 0x30 0x45 0x00" does: "ok", "fail" (non-zero exit
\*          status) or "garbage" (an output int() rejects)
\*   set    what the set-fan-mode command does
Start ==
    /\ pc = "main"
    /\ \E tool \in {"ok", "notfound"}, get \in {"ok", "fail", "garbage"}, set \in Procs :
        LET w0 == World
            w1 == main_set_fan_mode(w0, ipmi, set)
            cpu == cfg[CPU_ZONE].enabled
            hd == cfg[HD_ZONE].enabled
            e == IF cpu /\ Zone_init_exc(cfg[CPU_ZONE]) # "none"
                 THEN Zone_init_exc(cfg[CPU_ZONE])
                 ELSE IF hd /\ Zone_init_exc(cfg[HD_ZONE]) # "none"
                 THEN Zone_init_exc(cfg[HD_ZONE])
                 ELSE "none"
            w2 == [w1 EXCEPT !.zone = [z \in Zones |->
                        IF cfg[z].enabled /\ (z = CPU_ZONE \/ ~cpu
                                              \/ Zone_init_exc(cfg[CPU_ZONE]) = "none")
                        THEN FanController_init(cfg[z], w1.now) ELSE w1.zone[z]]]
        IN  IF tool = "notfound" \/ ipmi.fan_mode_delay < 0 \/ ipmi.fan_level_delay < 0
               \/ get = "garbage"
            THEN /\ pc' = "exit" /\ exit_code' = 7
                 /\ exc' = IF tool = "notfound" THEN "FileNotFoundError" ELSE "ValueError"
                 /\ UNCHANGED <<now, wire, level, mode, zone>>
            ELSE IF get = "fail"
            THEN /\ pc' = "crashed" /\ exit_code' = 1 /\ exc' = "RuntimeError"
                 /\ UNCHANGED <<now, wire, level, mode, zone>>
            ELSE /\ now' = w2.now /\ wire' = w2.wire /\ level' = w2.level
                 /\ mode' = w2.mode /\ zone' = w2.zone
                 /\ IF e # "none"
                    THEN pc' = "crashed" /\ exit_code' = 1 /\ exc' = e
                    ELSE IF none_enabled(cpu, hd)
                    THEN pc' = "exit" /\ exit_code' = 8 /\ exc' = "none"
                    ELSE pc' = "loop" /\ exit_code' = -1 /\ exc' = "none"
    /\ UNCHANGED <<cfg, ipmi, log_level, os, ticks, call>>

\* The sleep time of the main loop (the polling times of the model are even).
wait ==
    IF cfg[CPU_ZONE].enabled /\ cfg[HD_ZONE].enabled
    THEN (IF cfg[CPU_ZONE].polling < cfg[HD_ZONE].polling
          THEN cfg[CPU_ZONE].polling ELSE cfg[HD_ZONE].polling) \div 2
    ELSE IF cfg[CPU_ZONE].enabled THEN cfg[CPU_ZONE].polling \div 2
    ELSE cfg[HD_ZONE].polling \div 2

\* One iteration of the main loop: the CPU zone's run(), the HD zone's
\* run(), the sleep. An exception leaves main, and the process ends.
MainLoop ==
    /\ pc = "loop"
    /\ now < MaxTime
    /\ \E inC \in IF cfg[CPU_ZONE].enabled THEN TickInputs(CPU_ZONE) ELSE {NoInput} :
       \E w0 \in {World} :
       \E w1 \in {IF cfg[CPU_ZONE].enabled
                  THEN run(w0, ipmi, CPU_ZONE, cfg[CPU_ZONE], inC) ELSE w0} :
       \E runHd \in {cfg[HD_ZONE].enabled /\ w1.exc = "none"} :
       \E inH \in IF runHd THEN TickInputs(HD_ZONE) ELSE {NoInput} :
       \E w2 \in {IF runHd THEN run(w1, ipmi, HD_ZONE, cfg[HD_ZONE], inH) ELSE w1} :
          /\ ticks' = [z \in Zones |->
                IF z = CPU_ZONE
                THEN (IF cfg[z].enabled THEN Tick(z, inC, w0, w1) ELSE NoTick)
                ELSE (IF runHd THEN Tick(z, inH, w1, w2) ELSE NoTick)]
          /\ wire' = w2.wire /\ level' = w2.level /\ mode' = w2.mode
          /\ zone' = w2.zone /\ exc' = w2.exc
          /\ IF w2.exc = "none"
             THEN pc' = "loop" /\ exit_code' = -1 /\ now' = w2.now + wait
             ELSE pc' = "crashed" /\ exit_code' = 1 /\ now' = w2.now
    /\ UNCHANGED <<cfg, ipmi, log_level, os, call>>

Next == Start \/ MainLoop

Spec == Init /\ [][Next]_vars

(***************************************************************************)
(* The Ipmi object driven through its public operations by any caller.     *)
(***************************************************************************)
ZoneArgs == {CPU_ZONE, HD_ZONE, 2}
LevelArgs == {-1, 50, 100, 101}
ModeArgs == {FULL_MODE, 3}

InitIpmi ==
    /\ cfg = [z \in Zones |->
                [enabled |-> FALSE, temp_calc |-> CALC_AVG, steps |-> 4,
                 sensitivity |-> Rat(1, 10), polling |-> 2, min_level |-> 20,
                 max_level |-> 100, limits |-> NoLimits]]
    /\ ipmi \in IpmiCfgs
    /\ log_level = 1
    /\ os = "Linux"
    /\ pc = "api"
    /\ exit_code = -1
    /\ now = 0
    /\ wire = <<>>
    /\ level = [z \in Zones |-> 0]
    /\ mode = STANDARD_MODE
    /\ zone = [z \in Zones |-> [last_time |-> 0, last_temp |-> Flt(0), last_level |-> 0,
                                sensors |-> <<>>]]
    /\ exc = "none"
    /\ ticks = [z \in Zones |-> NoTick]
    /\ call = NoCall

\* A caller runs ipmi.set_fan_level(z, l); an exception goes to the caller.
CallSetFanLevel ==
    /\ pc = "api"
    /\ Len(wire) < MaxCmds
    /\ \E z \in ZoneArgs, l \in LevelArgs, proc \in Procs \cup {"notfound"} :
       \E w \in {Ipmi_set_fan_level(World, ipmi, z, l, proc)} :
          /\ now' = w.now /\ wire' = w.wire /\ level' = w.level /\ mode' = w.mode
          /\ exc' = w.exc
          /\ call' = [op |-> "set_fan_level", zone |-> z, level |-> l, proc |-> proc,
                      exc |-> w.exc, cmds |-> SubSeq(w.wire, Len(wire) + 1, Len(w.wire)),
                      slept |-> w.now - now]
    /\ UNCHANGED <<cfg, ipmi, log_level, os, pc, exit_code, zone, ticks>>

\* A caller runs ipmi.set_fan_mode(m).
CallSetFanMode ==
    /\ pc = "api"
    /\ Len(wire) < MaxCmds
    /\ \E m \in ModeArgs, proc \in Procs \cup {"notfound"} :
       \E w \in {Ipmi_set_fan_mode(World, ipmi, m, proc)} :
          /\ now' = w.now /\ wire' = w.wire /\ level' = w.level /\ mode' = w.mode
          /\ exc' = w.exc
          /\ call' = [op |-> "set_fan_mode", mode |-> m, proc |-> proc,
                      exc |-> w.exc, cmds |-> SubSeq(w.wire, Len(wire) + 1, Len(w.wire)),
                      slept |-> w.now - now]
    /\ UNCHANGED <<cfg, ipmi, log_level, os, pc, exit_code, zone, ticks>>

\* Time passes between two calls.
Elapse ==
    /\ pc = "api"
    /\ now < MaxTime
    /\ now' = now + 1
    /\ UNCHANGED <<cfg, ipmi, log_level, os, pc, exit_code, wire, level, mode, zone, exc, ticks,
                   call>>

NextIpmi == CallSetFanLevel \/ CallSetFanMode \/ Elapse

SpecIpmi == InitIpmi /\ [][NextIpmi]_vars

(***************************************************************************)
(* One FanController driven tick by tick. A FanController leaves           *)
(* update_sensors to its subclasses and reads the temperature through the  *)
(* callable self.get_temp_func; here that callable answers any relative    *)
(* temperature, so that the steps of run() after it are seen at work.      *)
(***************************************************************************)
\* run() without its step 1.
run_temp_no_rate_gate(w, my_ipmi, z, c, proc, t) ==
    run_steps(w, my_ipmi, z, c, proc, [exc |-> "none", sensors |-> w.zone[z].sensors], t)

\* FanController.run with self.get_temp_func() answering t.
run_temp(w, my_ipmi, z, c, proc, t) ==
    IF w.now - w.zone[z].last_time < c.polling THEN w
    ELSE run_steps(w, my_ipmi, z, c, proc,
                   [exc |-> "none", sensors |-> w.zone[z].sensors], t)

\* What that run() did; prev is the temperature the zone's poll before this
\* tick read, NaN if there was none.
TempTick(z, c, t, proc, w0, w1) ==
    [ran |-> TRUE, in |-> [proc |-> proc], time |-> w0.now,
     pre |-> w0.zone[z], post |-> w1.zone[z],
     polled |-> ~(w0.now - w0.zone[z].last_time < c.polling),
     temp |-> t,
     prev |-> IF ~ticks[z].ran THEN NaN
              ELSE IF ticks[z].polled THEN ticks[z].temp ELSE ticks[z].prev,
     writes |-> SubSeq(w1.wire, Len(w0.wire) + 1, Len(w1.wire)),
     exc |-> w1.exc]

\* The answers of get_temp_func: binary fractions, which floats hold exactly.
RelTemps == {NaN, Flt(0), Rat(1, 16), Rat(1, 8), Rat(1, 2), Rat(5, 8), Flt(1)}

InitZone ==
    /\ cfg \in {[z \in Zones |->
                  [enabled |-> z = CPU_ZONE, temp_calc |-> CALC_AVG, steps |-> 4,
                   sensitivity |-> Rat(1, 10), polling |-> 2, min_level |-> 20,
                   max_level |-> 100, limits |-> Limits(30, 70)]]}
    /\ ipmi \in {c \in IpmiCfgs : ~c.swapped_zones}
    /\ log_level = 1
    /\ os = "Linux"
    /\ pc = "zone"
    /\ exit_code = -1
    /\ now = 0
    /\ wire = <<>>
    /\ level = [z \in Zones |-> 0]
    /\ mode = FULL_MODE
    /\ zone = [z \in Zones |-> FanController_init(cfg[z], 0)]
    /\ exc = "none"
    /\ ticks = [z \in Zones |-> NoTick]
    /\ call = NoCall

\* The caller runs the CPU zone's run(); an exception ends the caller.
ZoneTick ==
    /\ pc = "zone"
    /\ Len(wire) < MaxCmds
    /\ \E t \in RelTemps, proc \in Procs :
       \E w0 \in {World} :
       \E w1 \in {run_temp(w0, ipmi, CPU_ZONE, cfg[CPU_ZONE], proc, t)} :
          /\ ticks' = [ticks EXCEPT ![CPU_ZONE] = TempTick(CPU_ZONE, cfg[CPU_ZONE], t, proc, w0, w1)]
          /\ now' = w1.now /\ wire' = w1.wire /\ level' = w1.level /\ mode' = w1.mode
          /\ zone' = w1.zone /\ exc' = w1.exc
          /\ pc' = IF w1.exc = "none" THEN "zone" ELSE "crashed"
    /\ UNCHANGED <<cfg, ipmi, log_level, os, exit_code, call>>

\* Time passes between two calls of run().
ZoneSleep ==
    /\ pc = "zone"
    /\ now < MaxTime
    /\ now' = now + 1
    /\ UNCHANGED <<cfg, ipmi, log_level, os, pc, exit_code, wire, level, mode, zone, exc, ticks,
                   call>>

NextZone == ZoneTick \/ ZoneSleep

SpecZone == InitZone /\ [][NextZone]_vars

(***************************************************************************)
(* Sensor.getDiskTemps called for a host with one disk.                    *)
(***************************************************************************)
SmartLines ==
    {[kind |-> k, cap |-> c] : k \in {"194", "190", "temp"}, c \in {-1, 35, 41}}
        \cup {[kind |-> "other", cap |-> -1]}

InitDisk ==
    /\ cfg = [z \in Zones |->
                [enabled |-> FALSE, temp_calc |-> CALC_AVG, steps |-> 4,
                 sensitivity |-> Rat(1, 10), polling |-> 2, min_level |-> 20,
                 max_level |-> 100, limits |-> NoLimits]]
    /\ ipmi \in {c \in IpmiCfgs : c.fan_level_delay = 2 /\ ~c.impi_alternate_mode
                                  /\ ~c.swapped_zones}
    /\ log_level = 1
    /\ os \in {"Linux", "FreeBSD", "Darwin"}
    /\ pc = "api"
    /\ exit_code = -1
    /\ now = 0
    /\ wire = <<>>
    /\ level = [z \in Zones |-> 0]
    /\ mode = STANDARD_MODE
    /\ zone = [z \in Zones |-> [last_time |-> 0, last_temp |-> Flt(0), last_level |-> 0,
                                sensors |-> <<>>]]
    /\ exc = "none"
    /\ ticks = [z \in Zones |-> NoTick]
    /\ call = NoCall

\* A caller runs Sensor.getDiskTemps(smartctl_path, False, [10, 50], [10, 70])
\* on a host whose one disk answers smartctl with the lines smart. The
\* method keeps no state, so one call per behaviour shows all it can do.
CallGetDiskTemps ==
    /\ pc = "api"
    /\ call = NoCall
    /\ \E smart \in SeqsUpTo(SmartLines, MaxLines), rot \in BOOLEAN :
       \E r \in {getDiskTemps(os, <<[smart |-> smart, rotational |-> rot]>>)} :
          /\ exc' = r.exc
          /\ call' = [op |-> "getDiskTemps", smart |-> smart, rotational |-> rot,
                      exc |-> r.exc, list |-> r.list]
    /\ UNCHANGED <<cfg, ipmi, log_level, os, pc, exit_code, now, wire, level, mode, zone, ticks>>

NextDisk == CallGetDiskTemps

SpecDisk == InitDisk /\ [][NextDisk]_vars

(***************************************************************************)
(* A FanController constructed, and a Sensor constructed and asked for its *)
(* relative temperature, by any caller.                                    *)
(***************************************************************************)
\* The parameters a caller may hand to FanController.__init__.
InitCfgs ==
    [enabled : {TRUE}, temp_calc : {CALC_AVG}, steps : {0, 4},
     sensitivity : {Flt(0), Rat(1, 10), Flt(1), Flt(2)}, polling : {-1, 0, 2},
     min_level : {-10, 20, 120}, max_level : {10, 100, 150}, limits : {NoLimits}]

\* The values a caller may hand to Sensor.__init__.
SensorArgs ==
    [temperature : {NaN, Flt(30), Flt(50), Flt(70)},
     lnc : {NaN, Flt(30), Flt(70)}, unc : {NaN, Flt(30), Flt(70)},
     status : {"ok"}, type : {"None"}]

\* A caller constructs FanController(log, ipmi, CPU_ZONE, name, ...) at a
\* log level below DEBUG. The constructor keeps nothing outside the object,
\* so one call per behaviour shows all it can do.
CallFanControllerInit ==
    /\ pc = "api"
    /\ call = NoCall
    /\ \E c \in InitCfgs :
          /\ exc' = FanController_init_exc(c)
          /\ call' = [op |-> "FanController", cfg |-> c, exc |-> FanController_init_exc(c)]
    /\ UNCHANGED <<cfg, ipmi, log_level, os, pc, exit_code, now, wire, level, mode, zone, ticks>>

\* A caller constructs a Sensor and calls its getRelTemp().
CallGetRelTemp ==
    /\ pc = "api"
    /\ call = NoCall
    /\ \E sensor \in SensorArgs :
       \E r \in {getRelTemp(sensor)} :
          /\ exc' = r.exc
          /\ call' = [op |-> "getRelTemp", sensor |-> sensor, exc |-> r.exc, val |-> r.val]
    /\ UNCHANGED <<cfg, ipmi, log_level, os, pc, exit_code, now, wire, level, mode, zone, ticks>>

\* The thresholds of one row of the IPMI sensor table, in the order a BMC
\* reports them: lnr <= lcr <= lnc <= unc <= ucr <= unr.
BmcThresholds ==
    LET V == {Flt(10), Flt(30), Flt(70), Flt(90)}
        le(a, b) == ~FGt(a, b)
    IN  {th \in [lnr : V, lcr : V, lnc : V, unc : V, ucr : V, unr : V] :
            /\ le(th.lnr, th.lcr) /\ le(th.lcr, th.lnc) /\ le(th.lnc, th.unc)
            /\ le(th.unc, th.ucr) /\ le(th.ucr, th.unr)}

\* The sensor_limits lists a caller may pass, both elements present.
LimitArgs ==
    LET V == {Flt(0), Flt(20), Flt(30), Flt(50), Flt(70), Flt(95)}
    IN  [has0 : {TRUE}, v0 : V, has1 : {TRUE}, v1 : V]

\* A caller runs Sensor.getIpmiTemps(path, spec, sensor_limits) while the
\* IPMI sensor table has one matching row.
CallGetIpmiTemps ==
    /\ pc = "api"
    /\ call = NoCall
    /\ \E th \in BmcThresholds, limits \in LimitArgs :
       \E row \in {[temperature |-> Flt(50), status |-> "ok",
                    lnr |-> th.lnr, lcr |-> th.lcr, lnc |-> th.lnc,
                    unc |-> th.unc, ucr |-> th.ucr, unr |-> th.unr,
                    type |-> "None"]} :
       \E r \in {getIpmiTemps(<<row>>, limits)} :
          /\ exc' = r.exc
          /\ call' = [op |-> "getIpmiTemps", row |-> row, limits |-> limits,
                      exc |-> r.exc, list |-> r.list]
    /\ UNCHANGED <<cfg, ipmi, log_level, os, pc, exit_code, now, wire, level, mode, zone, ticks>>

\* The zone configurations the constructor accepts, with steps for which
\* 1.0 / steps is an exact float.
LevelCfgs ==
    {c \in [enabled : {TRUE}, temp_calc : {CALC_AVG}, steps : {1, 2, 4},
            sensitivity : {Rat(1, 10)}, polling : {2}, min_level : {0, 20, 35},
            max_level : {1, 10, 35, 100}, limits : {NoLimits}] :
        FanController_init_exc(c) = "none"}

\* Relative temperatures in [0, 1]: the sixteenths, exact as floats.
LevelTemps == {Rat(k, 16) : k \in 0..16}

\* Step 3 of run, for a zone of configuration c, done for two temperatures;
\* levels are the levels it computes over all of LevelTemps.
CallCurrentLevel ==
    /\ pc = "api"
    /\ call = NoCall
    /\ \E c \in LevelCfgs, r1 \in LevelTemps, r2 \in LevelTemps :
          /\ exc' = "none"
          /\ call' = [op |-> "current_level", cfg |-> c, r1 |-> r1, r2 |-> r2,
                      level1 |-> current_level(c, r1), level2 |-> current_level(c, r2),
                      levels |-> {current_level(c, r) : r \in LevelTemps}]
    /\ UNCHANGED <<cfg, ipmi, log_level, os, pc, exit_code, now, wire, level, mode, zone, ticks>>

NextObjects ==
    CallFanControllerInit \/ CallGetRelTemp \/ CallGetIpmiTemps \/ CallCurrentLevel

\* The state before any of these calls.
InitObjects == InitDisk /\ os = "Linux"

SpecObjects == InitObjects /\ [][NextObjects]_vars

(***************************************************************************)
(* What the specification says of a Reading and of the quantization.       *)
(***************************************************************************)
\* rel = clamp((temperature - lnc) / (unc - lnc), 0, 1), for lnc # unc
SpecRel(s) ==
    LET r == FDiv(FSub(s.temperature, s.lnc), FSub(s.unc, s.lnc))
    IN  IF FLt(r, Flt(0)) THEN Flt(0) ELSE IF FGt(r, Flt(1)) THEN Flt(1) ELSE r

Regular(s) == ~isnan(s.temperature) /\ ~isnan(s.lnc) /\ ~isnan(s.unc) /\ FLt(s.lnc, s.unc)

\* step = round(rel / temp_step), level = round(step * level_step) + min_level
SpecStep(c, rel) == PyRound(FMul(rel, Flt(c.steps)))
SpecLevel(c, rel) ==
    PyRound(FMul(Flt(SpecStep(c, rel)), Rat(c.max_level - c.min_level, c.steps))) + c.min_level

\* The largest SpecRel among the regular readings of a non-empty list.
RECURSIVE SpecMax(_)
SpecMax(ss) ==
    IF Len(ss) = 1 THEN SpecRel(ss[1])
    ELSE LET m == SpecMax(Tail(ss))
         IN  IF FGt(SpecRel(Head(ss)), m) THEN SpecRel(Head(ss)) ELSE m

\* Zone z was polled in the latest iteration of the main loop.
Polled(z) == ticks[z].ran /\ ticks[z].polled

\* The set-level commands of the tick of zone z.
LevelsWritten(z) == [i \in DOMAIN ticks[z].writes |-> ticks[z].writes[i].value]

(***************************************************************************)
(* Facts about the daemon that the claims below rest on.                   *)
(***************************************************************************)
\* Every poll reads NaN as its aggregated temperature and ends the process.
EveryPollEndsTheDaemon ==
    \A z \in Zones : Polled(z) => isnan(ticks[z].temp) /\ ticks[z].exc = "ValueError"
                                  /\ pc = "crashed"

\* The daemon never runs a set-level command.
NoSetLevelByDaemon == \A i \in DOMAIN wire : wire[i].op # "set_level"

(***************************************************************************)
(* Claims.                                                                 *)
(***************************************************************************)
\* C3: a tick whose aggregated relative temperature is NaN returns
\* normally, and the main loop goes on to its next iteration.
C3_NaNTickReturns ==
    \A z \in Zones :
        (Polled(z) /\ isnan(ticks[z].temp)) => (ticks[z].exc = "none" /\ pc = "loop")

\* C4: a tick whose sensor list is empty quits early (it returns to the main
\* loop), issues no BMC write and leaves last_level unchanged.
C4_EmptyListQuitsEarly ==
    \A z \in Zones :
        (Polled(z) /\ ticks[z].post.sensors = <<>>)
            => /\ ticks[z].exc = "none"
               /\ ticks[z].writes = <<>>
               /\ ticks[z].post.last_level = ticks[z].pre.last_level

\* C5: a tick of a zone with a single reading lnc <= t <= unc that passes the
\* hysteresis gate writes the level round(round(rel/temp_step)*level_step) +
\* min_level, rel = (t - lnc)/(unc - lnc): 60 for steps=4, min=20, max=100,
\* lnc=30, unc=70 on the first tick at t=50.
C5_SingleReadingLevel ==
    \A z \in Zones :
        (/\ Polled(z)
         /\ Len(ticks[z].post.sensors) = 1
         /\ Regular(ticks[z].post.sensors[1])
         /\ ~FLt(FAbs(FSub(SpecRel(ticks[z].post.sensors[1]), ticks[z].pre.last_temp)),
                 cfg[z].sensitivity)
         /\ SpecLevel(cfg[z], SpecRel(ticks[z].post.sensors[1])) # ticks[z].pre.last_level)
            => LevelsWritten(z) = <<SpecLevel(cfg[z], SpecRel(ticks[z].post.sensors[1]))>>

\* C6: a zone whose only reading is at temperature lnc ends its tick with
\* the BMC zone level at min_level, also on the first tick.
C6_AtLncMinLevel ==
    \A z \in Zones :
        (/\ Polled(z)
         /\ Len(ticks[z].post.sensors) = 1
         /\ Regular(ticks[z].post.sensors[1])
         /\ FEq(ticks[z].post.sensors[1].temperature, ticks[z].post.sensors[1].lnc))
            => /\ getRelTemp(ticks[z].post.sensors[1]) = Ok(Flt(0))
               /\ level[IF ipmi.swapped_zones THEN 1 - z ELSE z] = cfg[z].min_level

\* C7: a reading with temperature >= unc has relative temperature 1, which
\* quantizes to step = steps and level max_level.
C7_AtUncMaxLevel ==
    \A z \in Zones : \A i \in DOMAIN zone[z].sensors :
        (Regular(zone[z].sensors[i])
         /\ ~FLt(zone[z].sensors[i].temperature, zone[z].sensors[i].unc))
            => /\ getRelTemp(zone[z].sensors[i]) = Ok(Flt(1))
               /\ current_gain(cfg[z], Flt(1)) = cfg[z].steps
               /\ current_level(cfg[z], Flt(1)) = cfg[z].max_level

\* C8: the relative temperature of every Reading is
\* clamp((temperature - lnc)/(unc - lnc), 0, 1), never below 0 or above 1.
C8_RelTempIsClamp ==
    \A z \in Zones : \A i \in DOMAIN zone[z].sensors :
        Regular(zone[z].sensors[i])
            => /\ getRelTemp(zone[z].sensors[i]) = Ok(SpecRel(zone[z].sensors[i]))
               /\ ~FLt(getRelTemp(zone[z].sensors[i]).val, Flt(0))
               /\ ~FGt(getRelTemp(zone[z].sensors[i]).val, Flt(1))

\* C9: two successive set-level commands for the same zone are at least
\* fan_level_delay seconds apart, and every set-level command run is followed
\* by the settle sleep before set_fan_level returns.
C9_SettleDelay ==
    /\ \A i, j \in DOMAIN wire :
        (i < j /\ wire[i].op = "set_level" /\ wire[j].op = "set_level"
         /\ wire[i].zone = wire[j].zone)
            => wire[j].time - wire[i].time >= ipmi.fan_level_delay
    /\ \A i \in DOMAIN wire :
        wire[i].op = "set_level" => now - wire[i].time >= ipmi.fan_level_delay

\* Two set-level commands were run for one zone, with a settle delay set.
C9_Witness ==
    /\ ipmi.fan_level_delay > 0
    /\ \E i, j \in DOMAIN wire :
        /\ i < j /\ wire[i].op = "set_level" /\ wire[j].op = "set_level"
        /\ wire[i].zone = wire[j].zone

\* C10: under MAX aggregation the aggregated relative temperature of a poll
\* is the largest relative temperature among its readings.
C10_MaxIsLargest ==
    \A z \in Zones :
        (/\ Polled(z)
         /\ cfg[z].temp_calc = CALC_MAX
         /\ ticks[z].post.sensors # <<>>
         /\ \A i \in DOMAIN ticks[z].post.sensors : Regular(ticks[z].post.sensors[i]))
            => ticks[z].temp = SpecMax(ticks[z].post.sensors)

\* The mean and the smallest of the relative temperatures of the readings
\* that have one.
RECURSIVE SpecSum(_)
SpecSum(ss) == IF ss = <<>> THEN Flt(0) ELSE FAdd(SpecRel(Head(ss)), SpecSum(Tail(ss)))

SpecMean(ss) == FDiv(SpecSum(SelectSeq(ss, Regular)), Flt(Len(SelectSeq(ss, Regular))))

RECURSIVE SpecSmallest(_)
SpecSmallest(ss) ==
    IF Len(ss) = 1 THEN SpecRel(ss[1])
    ELSE LET m == SpecSmallest(Tail(ss))
         IN  IF FLt(SpecRel(Head(ss)), m) THEN SpecRel(Head(ss)) ELSE m

SpecMin(ss) == SpecSmallest(SelectSeq(ss, Regular))

\* C11: under AVG aggregation the aggregated relative temperature of a poll
\* is the arithmetic mean of the relative temperatures of its non-NaN
\* readings; NaN readings are skipped.
C11_AvgIsMean ==
    \A z \in Zones :
        (/\ Polled(z)
         /\ cfg[z].temp_calc = CALC_AVG
         /\ \E i \in DOMAIN ticks[z].post.sensors : Regular(ticks[z].post.sensors[i]))
            => ticks[z].temp = SpecMean(ticks[z].post.sensors)

\* C12: under MIN aggregation the aggregated relative temperature of a poll
\* is the smallest relative temperature among its non-NaN readings.
C12_MinIsSmallest ==
    \A z \in Zones :
        (/\ Polled(z)
         /\ cfg[z].temp_calc = CALC_MIN
         /\ \E i \in DOMAIN ticks[z].post.sensors : Regular(ticks[z].post.sensors[i]))
            => ticks[z].temp = SpecMin(ticks[z].post.sensors)

\* main ended before its loop with an exception or with exit code 7.
StartFailed == exit_code = 7 \/ (pc = "crashed" /\ \A z \in Zones : ~ticks[z].ran)

\* C13: the construction of a zone controller accepts temp_calc = FIRST: an
\* enabled zone configured with it is built without an error.
C13_FirstAccepted ==
    \A z \in Zones :
        (cfg[z].enabled /\ cfg[z].temp_calc = CALC_ONE /\ pc # "main"
         /\ exit_code # 7 /\ exc # "RuntimeError")
            => /\ FanController_init_exc(cfg[z]) = "none"
               /\ ~(StartFailed /\ exc = "ValueError")

\* C14: every command set_fan_level(zone, percent) runs is for wire zone
\* 1 - zone when swapped_zones is set and for zone itself when it is not, and
\* in the default mode a call with valid arguments runs exactly one command.
C14_SwapZones ==
    call.op = "set_fan_level"
        => /\ \A i \in DOMAIN call.cmds :
                call.cmds[i].zone = IF ipmi.swapped_zones THEN 1 - call.zone ELSE call.zone
           /\ (call.zone \in {CPU_ZONE, HD_ZONE} /\ call.level \in 0..100
               /\ ~ipmi.impi_alternate_mode /\ call.proc # "notfound")
                  => Len(call.cmds) = 1

\* With swapped zones, set_fan_level(CPU_ZONE, 50) ran a command for zone 1.
C14_Witness ==
    /\ ipmi.swapped_zones
    /\ call.op = "set_fan_level" /\ call.zone = CPU_ZONE /\ call.level = 50
    /\ Len(call.cmds) = 1 /\ call.cmds[1].zone = 1

\* C15: with the alternate mode enabled, set_fan_level(zone, percent) with
\* zone in {0, 1} and percent in 0..100 runs its command and then sleeps the
\* settle delay.
C15_AlternateCommand ==
    (call.op = "set_fan_level" /\ ipmi.impi_alternate_mode
     /\ call.zone \in {CPU_ZONE, HD_ZONE} /\ call.level \in 0..100 /\ call.proc # "notfound")
        => /\ call.exc = "none"
           /\ Len(call.cmds) = 1
           /\ call.slept = ipmi.fan_level_delay

\* C16: set_fan_mode with a mode outside the four known modes raises an error
\* and runs no command; with a known mode it runs the set-mode command with
\* that mode and then sleeps fan_mode_delay, whatever the exit status.
C16_SetFanMode ==
    call.op = "set_fan_mode"
        => IF call.mode \notin {STANDARD_MODE, FULL_MODE, OPTIMAL_MODE, HEAVY_IO_MODE}
           THEN call.exc = "ValueError" /\ call.cmds = <<>> /\ call.slept = 0
           ELSE call.proc # "notfound"
                   => /\ call.exc = "none"
                      /\ Len(call.cmds) = 1
                      /\ call.cmds[1].op = "set_mode" /\ call.cmds[1].value = call.mode
                      /\ call.slept = ipmi.fan_mode_delay

\* set_fan_mode(FULL) ran its command, which ended with a non-zero exit
\* status, and slept.
C16_Witness ==
    /\ call.op = "set_fan_mode" /\ call.mode = FULL_MODE /\ call.proc = "fail"
    /\ Len(call.cmds) = 1 /\ call.slept = ipmi.fan_mode_delay /\ call.slept > 0

\* The set-mode command for FULL was the first command run.
FullCommanded == wire # <<>> /\ wire[1].op = "set_mode" /\ wire[1].value = FULL_MODE

\* C17: before any zone ticks the BMC is in FULL mode or, if it refused, has
\* been sent the command for it; the only fan-mode command the daemon ever
\* runs is that one, ahead of every set-level command.
C17_FullBeforeTicks ==
    /\ \A i \in DOMAIN wire :
         wire[i].op = "set_mode" => i = 1 /\ wire[i].value = FULL_MODE
    /\ (pc = "loop" \/ \E z \in Zones : ticks[z].ran) => (mode = FULL_MODE \/ FullCommanded)
    /\ \A i \in DOMAIN wire : wire[i].op = "set_level" => (mode = FULL_MODE \/ FullCommanded)

\* A zone ticked after the daemon had driven the BMC to FULL.
C17_Witness ==
    /\ \E z \in Zones : ticks[z].ran
    /\ FullCommanded /\ mode = FULL_MODE

\* C18: once main has its Ipmi object and has built the enabled zones, it
\* exits with code 8 without a tick or a set-level command if no zone is
\* enabled, and goes into its loop if one is.
C18_NoZoneExit8 ==
    (pc # "main" /\ ~StartFailed)
        => IF ~cfg[CPU_ZONE].enabled /\ ~cfg[HD_ZONE].enabled
           THEN /\ pc = "exit" /\ exit_code = 8
                /\ \A z \in Zones : ~ticks[z].ran
                /\ \A i \in DOMAIN wire : wire[i].op # "set_level"
           ELSE exit_code # 8 /\ pc \in {"loop", "crashed"}

\* The daemon has exited with code 8.
C18_Witness ==
    /\ pc = "exit" /\ exit_code = 8
    /\ ~cfg[CPU_ZONE].enabled /\ ~cfg[HD_ZONE].enabled

\* What float() makes of the capture of line l.
SpecCapture(l) == IF l.cap < 0 THEN Raise("ValueError") ELSE Ok(Flt(l.cap))

HasLine(lines, k) == \E i \in DOMAIN lines : lines[i].kind = k

FirstLine(lines, k) ==
    lines[CHOOSE i \in DOMAIN lines :
            lines[i].kind = k /\ \A j \in 1..(i - 1) : lines[j].kind # k]

\* What the latest getDiskTemps call made of the disk's temperature.
DiskOutcome == IF call.exc # "none" THEN Raise(call.exc) ELSE Ok(call.list[1].temperature)

\* C19: the temperature of a disk is taken from the first attribute-194 line
\* of its SMART output if there is one, wherever it stands; from the first
\* 190 line only if there is no 194 line; from the first 'temperature' line
\* only if there is neither.
C19_Prefers194 ==
    (call.op = "getDiskTemps" /\ os \in {"Linux", "FreeBSD"})
        => IF HasLine(call.smart, "194")
           THEN DiskOutcome = SpecCapture(FirstLine(call.smart, "194"))
           ELSE IF HasLine(call.smart, "190")
           THEN DiskOutcome = SpecCapture(FirstLine(call.smart, "190"))
           ELSE IF HasLine(call.smart, "temp")
           THEN DiskOutcome = SpecCapture(FirstLine(call.smart, "temp"))
           ELSE DiskOutcome = Ok(NaN)

\* A 190 line stood before a 194 line with another value, and the disk's
\* temperature is that of the 194 line.
C19_Witness ==
    /\ call.op = "getDiskTemps" /\ call.exc = "none" /\ Len(call.list) = 1
    /\ \E i, j \in DOMAIN call.smart :
        /\ i < j /\ call.smart[i].kind = "190" /\ call.smart[j].kind = "194"
        /\ call.smart[i].cap >= 0 /\ call.smart[j].cap >= 0
        /\ call.smart[i].cap # call.smart[j].cap
        /\ call.list[1].temperature = Flt(call.smart[j].cap)

\* The default thresholds of a disk kind.
SpecDefaultMax(type) == IF type = "HDD" THEN Flt(50) ELSE IF type = "SSD" THEN Flt(70) ELSE Flt(60)

\* C20: a disk reading built without parsed limits has lnr = lcr = lnc = 10
\* and unc = ucr = unr = 50 for an HDD, 70 for an SSD, 60 for a disk of
\* unknown kind.
C20_DiskDefaults ==
    (call.op = "getDiskTemps" /\ call.exc = "none")
        => \A i \in DOMAIN call.list :
            /\ call.list[i].lnr = Flt(10) /\ call.list[i].lcr = Flt(10)
            /\ call.list[i].lnc = Flt(10)
            /\ call.list[i].unc = SpecDefaultMax(call.list[i].type)
            /\ call.list[i].ucr = SpecDefaultMax(call.list[i].type)
            /\ call.list[i].unr = SpecDefaultMax(call.list[i].type)

\* The commands run before the latest tick of zone z.
PriorWire(z) == SubSeq(wire, 1, Len(wire) - Len(ticks[z].writes))

\* The latest tick of zone z met the temperature of the last re-evaluation,
\* and the last command before it was the set-level for last_level.
SteadyAfterWrite(z) ==
    /\ Polled(z)
    /\ FEq(ticks[z].temp, ticks[z].pre.last_temp)
    /\ PriorWire(z) # <<>>
    /\ PriorWire(z)[Len(PriorWire(z))].op = "set_level"
    /\ PriorWire(z)[Len(PriorWire(z))].value = ticks[z].pre.last_level

\* C24: a poll at steady temperature that follows the set-level command for
\* last_level either runs a set-level command again or finds the BMC's zone
\* level equal to last_level, also when that command ended with a non-zero
\* exit status.
C24_RetryOrConverge ==
    \A z \in Zones :
        SteadyAfterWrite(z)
            => \/ ticks[z].writes # <<>>
               \/ level[IF ipmi.swapped_zones THEN 1 - z ELSE z] = ticks[z].post.last_level

\* C27: a tick polls if and only if at least polling seconds have passed
\* since the zone's last poll; the first tick after construction polls; a
\* tick that does not poll leaves the zone as it was and runs no command; and
\* a poll is at least polling seconds after the one before.
C27_RateGate ==
    \A z \in Zones :
        ticks[z].ran
            => /\ zone[z].last_time >= 0
               /\ IF ticks[z].time - ticks[z].pre.last_time < cfg[z].polling
                  THEN /\ ticks[z].post = ticks[z].pre
                       /\ ticks[z].writes = <<>>
                       /\ ticks[z].exc = "none"
                  ELSE /\ ticks[z].post.last_time = ticks[z].time
                       /\ ticks[z].post.last_time - ticks[z].pre.last_time >= cfg[z].polling

\* A tick came less than polling seconds after a poll and did nothing.
C27_Witness ==
    \E z \in Zones :
        /\ ticks[z].ran
        /\ ticks[z].pre.last_time >= 0
        /\ ticks[z].time - ticks[z].pre.last_time < cfg[z].polling
        /\ ticks[z].post = ticks[z].pre

\* The poll of zone z read a temperature less than sensitivity away from
\* last_temp.
GateClosed(z) ==
    FLt(FAbs(FSub(ticks[z].temp, ticks[z].pre.last_temp)), cfg[z].sensitivity)

\* C28: a poll whose temperature differs from last_temp by less than
\* sensitivity leaves last_temp and last_level unchanged and runs no command;
\* only a poll that passes the gate stores its temperature in last_temp.
C28_HysteresisGate ==
    \A z \in Zones :
        ticks[z].ran
            => IF ticks[z].polled /\ ~GateClosed(z)
               THEN ticks[z].post.last_temp = ticks[z].temp
               ELSE /\ ticks[z].post.last_temp = ticks[z].pre.last_temp
                    /\ ticks[z].post.last_level = ticks[z].pre.last_level
                    /\ ticks[z].writes = <<>>
                    /\ ticks[z].exc = "none"

\* A poll read a temperature other than last_temp and stopped at the gate,
\* after an earlier poll had passed it.
C28_Witness ==
    \E z \in Zones :
        /\ Polled(z) /\ GateClosed(z)
        /\ ~FEq(ticks[z].temp, ticks[z].pre.last_temp)
        /\ ~FIsZero(ticks[z].pre.last_temp)
        /\ ticks[z].post.last_temp = ticks[z].pre.last_temp

\* C29: a tick runs at most one set-level command, and only for a level other
\* than last_level; two successive set-level commands of a zone carry
\* different levels.
C29_WriteOnChange ==
    /\ \A z \in Zones :
        ticks[z].ran
            => /\ Len(ticks[z].writes) <= 1
               /\ \A i \in DOMAIN ticks[z].writes :
                    /\ ticks[z].writes[i].op = "set_level"
                    /\ ticks[z].writes[i].value # ticks[z].pre.last_level
    /\ \A i, j \in DOMAIN wire :
        (/\ i < j /\ wire[i].op = "set_level" /\ wire[j].op = "set_level"
         /\ wire[i].zone = wire[j].zone
         /\ \A k \in (i + 1)..(j - 1) :
                ~(wire[k].op = "set_level" /\ wire[k].zone = wire[i].zone))
            => wire[i].value # wire[j].value

\* A zone's ticks have run two set-level commands.
C29_Witness ==
    /\ \E z \in Zones : ticks[z].ran /\ Len(ticks[z].writes) = 1
    /\ \E i, j \in DOMAIN wire :
        /\ i < j /\ wire[i].op = "set_level" /\ wire[j].op = "set_level"
        /\ wire[i].zone = wire[j].zone

\* C21: every reading a zone holds after sensor acquisition, from the IPMI
\* query or from the disk query, has status FAIL if its temperature is NaN.
C21_NaNIsFail ==
    \A z \in Zones : \A i \in DOMAIN zone[z].sensors :
        isnan(zone[z].sensors[i].temperature) => zone[z].sensors[i].status = "FAIL"

\* C22: on an unsupported operating system a poll of the HD zone gives the
\* zone the readings of the IPMI query, without disk readings.
C22_UnsupportedOsKeepsIpmi ==
    (/\ Polled(HD_ZONE)
     /\ os \notin {"Linux", "FreeBSD"}
     /\ ticks[HD_ZONE].in.rows # <<>>
     /\ getIpmiTemps(ticks[HD_ZONE].in.rows, cfg[HD_ZONE].limits).exc = "none")
        => ticks[HD_ZONE].post.sensors
              = getIpmiTemps(ticks[HD_ZONE].in.rows, cfg[HD_ZONE].limits).list

\* C23: the disk temperature query raises nothing to its caller.
C23_AcquisitionNeverRaises ==
    call.op = "getDiskTemps" => call.exc = "none"

\* 0 <= min_level <= max_level <= 100, steps > 0, 0 < sensitivity <= 1,
\* polling >= 0
SpecValidCfg(c) ==
    /\ c.steps > 0
    /\ FGt(c.sensitivity, Flt(0)) /\ ~FGt(c.sensitivity, Flt(1))
    /\ c.polling >= 0
    /\ 0 <= c.min_level /\ c.min_level <= c.max_level /\ c.max_level <= 100

\* C25: FanController.__init__ constructs the controller exactly when its
\* parameters satisfy steps > 0, 0 < sensitivity <= 1, polling >= 0 and
\* 0 <= min_level <= max_level <= 100, and raises otherwise.
C25_ConstructedIffValid ==
    call.op = "FanController" => (call.exc = "none" <=> SpecValidCfg(call.cfg))

\* C26: with no threshold override configured the IPMI query of a poll
\* returns its readings with the thresholds the BMC reported.
C26_NoOverrideKeepsThresholds ==
    \A z \in Zones :
        (Polled(z) /\ cfg[z].limits = NoLimits /\ ticks[z].in.rows # <<>>)
            => getIpmiTemps(ticks[z].in.rows, cfg[z].limits)
                  = [exc |-> "none", list |-> ticks[z].in.rows]

\* C30: for a Reading with unc = lnc, or with lnc or unc NaN, getRelTemp
\* returns exactly 1.0 and raises nothing.
C30_DegenerateIsHot ==
    (/\ call.op = "getRelTemp"
     /\ \/ isnan(call.sensor.lnc) \/ isnan(call.sensor.unc)
        \/ FEq(call.sensor.lnc, call.sensor.unc))
        => call.exc = "none" /\ call.val = Flt(1)

\* The latest poll of zone z read a temperature less than sensitivity away
\* from the one the poll before it read.
SmallStep(z) ==
    /\ Polled(z)
    /\ FLt(FAbs(FSub(ticks[z].temp, ticks[z].prev)), cfg[z].sensitivity)

Ordered(s) ==
    /\ ~isnan(s.lnr) /\ ~isnan(s.lcr) /\ ~isnan(s.lnc)
    /\ ~isnan(s.unc) /\ ~isnan(s.ucr) /\ ~isnan(s.unr)
    /\ ~FGt(s.lnr, s.lcr) /\ ~FGt(s.lcr, s.lnc) /\ ~FGt(s.lnc, s.unc)
    /\ ~FGt(s.unc, s.ucr) /\ ~FGt(s.ucr, s.unr)

\* C31: the IPMI query called with an override min < max on a row whose
\* thresholds are ordered returns a reading with lnc = min and unc = max
\* whose thresholds are ordered.
C31_OverrideKeepsOrder ==
    (/\ call.op = "getIpmiTemps"
     /\ FLt(call.limits.v0, call.limits.v1)
     /\ Ordered(call.row))
        => /\ call.exc = "none" /\ Len(call.list) = 1
           /\ FEq(call.list[1].lnc, call.limits.v0)
           /\ FEq(call.list[1].unc, call.limits.v1)
           /\ Ordered(call.list[1])

\* The level of the latest set-level command run for zone z, 0 if none was.
LastIssued(z) ==
    LET bz == IF ipmi.swapped_zones THEN 1 - z ELSE z
        idx == {i \in DOMAIN wire : wire[i].op = "set_level" /\ wire[i].zone = bz}
    IN  IF idx = {} THEN 0
        ELSE wire[CHOOSE i \in idx : \A j \in idx : j <= i].value

\* C32: after every tick a zone's last_level is the level of the latest
\* set-level command run for the zone, 0 if none was run, also when
\* set_fan_level raised instead of running the command.
C32_LastLevelIsLastIssued ==
    \A z \in Zones : ticks[z].ran => zone[z].last_level = LastIssued(z)

\* C34: a daemon that exits with code 8 has run no set-fan-mode and no
\* set-level command, so the BMC has the fan mode found at start.
C34_Exit8WithoutCommand ==
    (pc = "exit" /\ exit_code = 8)
        => \A i \in DOMAIN wire : wire[i].op \notin {"set_mode", "set_level"}

\* The levels run computes for the relative temperatures in [0, 1] less than
\* sensitivity away from r. The level changes at odd multiples of
\* 1/(2 * steps) only, so for the temperatures and sensitivities of the
\* model the multiples of 1/160 meet every level there is in that range.
NearLevels(c, r) ==
    {current_level(c, Rat(k, 160)) :
        k \in {j \in 0..160 : FLt(FAbs(FSub(Rat(j, 160), r)), c.sensitivity)}}

\* A set-level command has been run for zone z.
Commanded(z) ==
    \E i \in DOMAIN wire :
        /\ wire[i].op = "set_level"
        /\ wire[i].zone = IF ipmi.swapped_zones THEN 1 - z ELSE z

\* C33: after a poll that completes with the relative temperature r, the
\* level of the latest set-level command of the zone is the level of some r'
\* with |r' - r| < sensitivity, from the first poll on.
C33_WrittenLevelNearTemp ==
    \A z \in Zones :
        (Polled(z) /\ ticks[z].exc = "none" /\ ~isnan(ticks[z].temp))
            => /\ Commanded(z)
               /\ LastIssued(z) \in NearLevels(cfg[z], ticks[z].temp)

\* C35: for one zone configuration and relative temperatures r1 <= r2 in
\* [0, 1] the level computed for r1 is at most the level computed for r2,
\* and no more than steps + 1 different levels are computed.
C35_QuantizationMonotone ==
    call.op = "current_level"
        => /\ ~FGt(call.r1, call.r2) => call.level1 <= call.level2
           /\ Cardinality(call.levels) <= call.cfg.steps + 1

\* Two temperatures with different levels, in a configuration that computes
\* steps + 1 different levels.
C35_Witness ==
    /\ call.op = "current_level"
    /\ FLt(call.r1, call.r2) /\ call.level1 < call.level2
    /\ call.cfg.steps = 4 /\ Cardinality(call.levels) = 5

\* C36: set_fan_level called with a zone outside {CPU_ZONE, HD_ZONE} or a
\* level outside 0..100 raises an error, runs no command and does not sleep.
C36_InvalidArgsRejected ==
    (/\ call.op = "set_fan_level"
     /\ (call.zone \notin {CPU_ZONE, HD_ZONE} \/ call.level \notin 0..100))
        => /\ call.exc = "ValueError"
           /\ call.cmds = <<>>
           /\ call.slept = 0

\* set_fan_level was called with level 101 for a valid zone after a valid
\* call had run its command, with a settle delay configured.
C36_Witness ==
    /\ call.op = "set_fan_level"
    /\ call.zone \in {CPU_ZONE, HD_ZONE} /\ call.level = 101
    /\ ipmi.fan_level_delay > 0 /\ ~ipmi.impi_alternate_mode
    /\ call.exc = "ValueError" /\ call.cmds = <<>> /\ call.slept = 0
    /\ wire # <<>>

====
